---------------------------- MODULE Spec2Model ----------------------------
(***************************************************************************)
(* Model of surfman/src/platform/generic/egl/context.rs: negotiation of a  *)
(* pixel format (ContextDescriptor::new / attributes), and the handling of *)
(* the calling thread's current EGL binding (CurrentContextGuard,          *)
(* ContextDescriptor::from_egl_context, make_no_context_current).          *)
(*                                                                         *)
(* The EGL entry points are the environment.  They are modelled after the  *)
(* EGL specification: eglChooseConfig matches the *_SIZE attributes "at    *)
(* least" and returns the matches in the display's preference order,       *)
(* eglMakeCurrent either installs the binding it is given or fails and     *)
(* leaves the binding alone.  Whether a native call fails is an input.     *)
(***************************************************************************)
EXTENDS Integers, Sequences, FiniteSets, TLC

VARIABLES
    \* --- pixel-format negotiation ---
    display,      \* the configs the display advertises, in enumeration order
    request,      \* [attributes, extra]: the arguments of ContextDescriptor::new
    pc,           \* position in the resolve / decode / re-resolve sequence
    first,        \* outcome of ContextDescriptor::new(display, request)
    decoded,      \* ContextAttributes returned by first.descriptor.attributes()
    redo,         \* outcome of ContextDescriptor::new(display, decoded, same extra)
    \* --- the thread's current binding ---
    current,      \* [display, context, read, draw] bound on the calling thread
    guard,        \* the live CurrentContextGuard, or NoGuard
    acquired,     \* the binding at the time the guard was acquired
    phase,        \* "idle", "held" (a guard is alive), "released" (it was dropped)
    native,       \* [ok, err]: did every native MakeCurrent of the last operation
                  \* (or since acquisition) report success; the code GetError gives
    op,           \* the operation that ran last
    pre,          \* the binding before from_egl_context / make_no_context_current
                  \* when one of them ran last (otherwise the current binding)
    ret           \* what that operation returned

resolveVars == <<display, request, pc, first, decoded, redo>>
bindingVars == <<current, guard, acquired, phase, native, op, pre, ret>>
vars == <<resolveVars, bindingVars>>

---------------------------------------------------------------------------
\* Bounds of the model.
MaxConfigs == 3      \* a display advertises at most this many configs
MaxMajor == 4        \* requested GL major versions are 1..MaxMajor
MaxMinor == 1        \* requested GL minor versions are 0..MaxMinor
NumContexts == 2     \* native contexts that exist
NumSurfaces == 2     \* native surfaces that exist

\* context.rs:18
RGB_CHANNEL_BIT_DEPTH == 8

---------------------------------------------------------------------------
\* ContextAttributeFlags and GLVersion (the caller's request).
ContextAttributeFlags == {"ALPHA", "DEPTH", "STENCIL", "COMPATIBILITY_PROFILE"}

GLVersions == [major : 1..MaxMajor, minor : 0..MaxMinor]

\* The backend-specific extra selection constraints a caller may pass.
ExtraConfigAttributes == { <<>>, <<"SURFACE_TYPE", "PBUFFER">> }

\* Error codes eglGetError may report, as wrapped by to_windowing_api_error.
WindowingApiErrors == {"BadDisplay", "BadAttribute"}

---------------------------------------------------------------------------
\* The native side: configs of a display and eglChooseConfig / eglGetConfigAttrib.

\* The formats a display may advertise.  Every config has its own CONFIG_ID.
Catalogue ==
    { [id |-> 21, red |-> 8,  green |-> 8,  blue |-> 8,  alpha |-> 0,
       depth |-> 0,  stencil |-> 0, surface |-> {"WINDOW", "PBUFFER"}],
      [id |-> 22, red |-> 8,  green |-> 8,  blue |-> 8,  alpha |-> 8,
       depth |-> 24, stencil |-> 8, surface |-> {"WINDOW", "PBUFFER"}],
      [id |-> 23, red |-> 8,  green |-> 8,  blue |-> 8,  alpha |-> 0,
       depth |-> 16, stencil |-> 0, surface |-> {"WINDOW"}],
      [id |-> 24, red |-> 10, green |-> 10, blue |-> 10, alpha |-> 2,
       depth |-> 24, stencil |-> 8, surface |-> {"WINDOW", "PBUFFER"}],
      [id |-> 25, red |-> 16, green |-> 16, blue |-> 16, alpha |-> 16,
       depth |-> 24, stencil |-> 8, surface |-> {"PBUFFER"}] }

\* A display: at most MaxConfigs distinct configs in its enumeration order.
\* An EGLConfig handle is the position of the config in that order; 0 is null.
Displays ==
    { d \in UNION { [1..n -> Catalogue] : n \in 0..MaxConfigs } :
        \A i, j \in DOMAIN d : i # j => d[i] # d[j] }

SizeAttributes ==
    {"RED_SIZE", "GREEN_SIZE", "BLUE_SIZE", "ALPHA_SIZE", "DEPTH_SIZE", "STENCIL_SIZE"}

\* eglGetConfigAttrib on a valid config.
GetConfigAttrib(disp, egl_config, attr) ==
    LET c == disp[egl_config]
    IN  CASE attr = "RED_SIZE"     -> c.red
          [] attr = "GREEN_SIZE"   -> c.green
          [] attr = "BLUE_SIZE"    -> c.blue
          [] attr = "ALPHA_SIZE"   -> c.alpha
          [] attr = "DEPTH_SIZE"   -> c.depth
          [] attr = "STENCIL_SIZE" -> c.stencil
          [] attr = "CONFIG_ID"    -> c.id

\* The (attribute, value) pairs of an attribute list, up to the NONE marker.
RECURSIVE AttribPairs(_, _)
AttribPairs(list, i) ==
    IF i > Len(list) \/ list[i] = "NONE"
    THEN <<>>
    ELSE << <<list[i], list[i + 1]>> >> \o AttribPairs(list, i + 2)

\* Does a config satisfy one selection criterion?  Sizes match "at least",
\* CONFIG_ID matches exactly, SURFACE_TYPE asks for a capability bit.
AttribMatches(c, attr, value) ==
    CASE attr \in SizeAttributes  -> GetConfigAttrib(<<c>>, 1, attr) >= value
      [] attr = "CONFIG_ID"       -> c.id = value
      [] attr = "SURFACE_TYPE"    -> value \in c.surface

\* eglChooseConfig: the handles of the matching configs, in enumeration order.
ChooseConfig(disp, attrib_list) ==
    LET pairs == AttribPairs(attrib_list, 1)
        handles == [i \in 1..Len(disp) |-> i]
        Matches(h) == \A k \in 1..Len(pairs) :
                          AttribMatches(disp[h], pairs[k][1], pairs[k][2])
    IN  SelectSeq(handles, Matches)

---------------------------------------------------------------------------
\* context.rs helpers.

\* get_config_attr: eglGetConfigAttrib, asserting success.
get_config_attr(disp, egl_config, attr) == GetConfigAttrib(disp, egl_config, attr)

\* egl_config_from_id: a single-result CONFIG_ID query; 0 stands for the
\* assertion failure (no config of that identifier on the display).
egl_config_from_id(disp, egl_config_id) ==
    LET found == ChooseConfig(disp, <<"CONFIG_ID", egl_config_id, "NONE", 0, 0, 0>>)
    IN  IF Len(found) > 0 THEN found[1] ELSE 0

\* A Result<ContextDescriptor, Error>.
NoDescriptor == [egl_config_id |-> 0, gl_version |-> [major |-> 0, minor |-> 0]]
Err(tag) == [tag |-> tag, err |-> "", descriptor |-> NoDescriptor]
ErrCode(tag, code) == [tag |-> tag, err |-> code, descriptor |-> NoDescriptor]
Ok(descriptor) == [tag |-> "Ok", err |-> "", descriptor |-> descriptor]

\* flags.contains(COMPATIBILITY_PROFILE)
CompatibilityProfileRequested_NoCheck(flags) == FALSE
CompatibilityProfileRequested(flags) == "COMPATIBILITY_PROFILE" \in flags

\* The GL ES version ceiling of 3.0.
VersionAboveCeiling_MajorOnly(version) == version.major > 3
VersionAboveCeiling(version) ==
    version.major > 3 \/ (version.major = 3 /\ version.minor > 0)

\* alpha_size, depth_size, stencil_size derived from the flags.
RequestedSizes_AlphaInverted(flags) ==
    [alpha   |-> IF "ALPHA" \in flags THEN 0 ELSE 8,
     depth   |-> IF "DEPTH" \in flags THEN 24 ELSE 0,
     stencil |-> IF "STENCIL" \in flags THEN 8 ELSE 0]
RequestedSizes(flags) ==
    [alpha   |-> IF "ALPHA" \in flags THEN 8 ELSE 0,
     depth   |-> IF "DEPTH" \in flags THEN 24 ELSE 0,
     stencil |-> IF "STENCIL" \in flags THEN 8 ELSE 0]

required_config_attributes ==
    <<"RED_SIZE",   RGB_CHANNEL_BIT_DEPTH,
      "GREEN_SIZE", RGB_CHANNEL_BIT_DEPTH,
      "BLUE_SIZE",  RGB_CHANNEL_BIT_DEPTH>>

requested_config_attributes(flags, extra_config_attributes) ==
    LET sizes == RequestedSizes(flags)
    IN  required_config_attributes
        \o <<"ALPHA_SIZE",   sizes.alpha,
             "DEPTH_SIZE",   sizes.depth,
             "STENCIL_SIZE", sizes.stencil>>
        \o extra_config_attributes
        \o <<"NONE", 0, 0, 0>>

\* The sanitizing filter: every required attribute, as reported by the
\* config itself, equals the required value.
SatisfiesRequired_Unchecked(disp, egl_config) == TRUE
SatisfiesRequired(disp, egl_config) ==
    LET pairs == AttribPairs(required_config_attributes, 1)
    IN  \A k \in 1..Len(pairs) :
            get_config_attr(disp, egl_config, pairs[k][1]) = pairs[k][2]

\* The GetConfigAttrib calls the filter makes on one config: `all` stops at
\* the first pair that differs.
RequiredQueries(disp, egl_config) ==
    LET pairs == AttribPairs(required_config_attributes, 1)
        differs == { k \in 1..Len(pairs) :
                       get_config_attr(disp, egl_config, pairs[k][1]) # pairs[k][2] }
        n == IF differs = {} THEN Len(pairs)
             ELSE CHOOSE k \in differs : \A m \in differs : k <= m
    IN  [k \in 1..n |-> "GetConfigAttrib"]

\* filter(..).next(): the first config that passes the filter, 0 if none.
FirstSurvivor_FallsBack(disp, configs) ==
    LET survivors == SelectSeq(configs, LAMBDA h : SatisfiesRequired(disp, h))
    IN  IF survivors # <<>> THEN Head(survivors)
        ELSE IF configs # <<>> THEN Head(configs) ELSE 0
FirstSurvivor_Last(disp, configs) ==
    LET survivors == SelectSeq(configs, LAMBDA h : SatisfiesRequired(disp, h))
    IN  IF survivors = <<>> THEN 0 ELSE survivors[Len(survivors)]
FirstSurvivor(disp, configs) ==
    LET survivors == SelectSeq(configs, LAMBDA h : SatisfiesRequired(disp, h))
    IN  IF survivors = <<>> THEN 0 ELSE Head(survivors)

\* The native calls of the lazy filter: configs are queried in order up to
\* and including the one that is selected.
RECURSIVE SanitizeCalls(_, _, _)
SanitizeCalls(disp, configs, k) ==
    IF k > Len(configs) THEN <<>>
    ELSE RequiredQueries(disp, configs[k])
         \o (IF SatisfiesRequired(disp, configs[k]) THEN <<>>
             ELSE SanitizeCalls(disp, configs, k + 1))

\* What the native side does during one call of ContextDescriptor::new: both
\* eglChooseConfig calls succeed, or one of them fails with an error code.
NativeOutcomes ==
    { [count_ok |-> TRUE, enumerate_ok |-> TRUE, err |-> "Success"] }
    \cup { [count_ok |-> FALSE, enumerate_ok |-> TRUE, err |-> e] :
               e \in WindowingApiErrors }
    \cup { [count_ok |-> TRUE, enumerate_ok |-> FALSE, err |-> e] :
               e \in WindowingApiErrors }

\* ContextDescriptor::new.  Returns the result, the native calls issued in
\* order, and the configs the enumeration returned.
ContextDescriptorNew(disp, attributes, extra_config_attributes, nat) ==
    LET flags == attributes.flags
        requested == requested_config_attributes(flags, extra_config_attributes)
        configs == ChooseConfig(disp, requested)
        egl_config == FirstSurvivor(disp, configs)
    IN  IF CompatibilityProfileRequested(flags)
        THEN [result |-> Err("UnsupportedGLProfile"), calls |-> <<>>,
              enumerated |-> <<>>]
        ELSE IF VersionAboveCeiling(attributes.version)
        THEN [result |-> Err("UnsupportedGLVersion"), calls |-> <<>>,
              enumerated |-> <<>>]
        ELSE IF ~nat.count_ok
        THEN [result |-> ErrCode("PixelFormatSelectionFailed", nat.err),
              calls |-> <<"ChooseConfig", "GetError">>, enumerated |-> <<>>]
        ELSE IF Len(configs) = 0
        THEN [result |-> Err("NoPixelFormatFound"),
              calls |-> <<"ChooseConfig">>, enumerated |-> <<>>]
        ELSE IF ~nat.enumerate_ok
        THEN [result |-> ErrCode("PixelFormatSelectionFailed", nat.err),
              calls |-> <<"ChooseConfig", "ChooseConfig", "GetError">>,
              enumerated |-> <<>>]
        ELSE IF egl_config = 0
        THEN [result |-> Err("NoPixelFormatFound"),
              calls |-> <<"ChooseConfig", "ChooseConfig">>
                        \o SanitizeCalls(disp, configs, 1),
              enumerated |-> configs]
        ELSE [result |-> Ok([egl_config_id |->
                                get_config_attr(disp, egl_config, "CONFIG_ID"),
                             gl_version |-> attributes.version]),
              calls |-> <<"ChooseConfig", "ChooseConfig">>
                        \o SanitizeCalls(disp, configs, 1)
                        \o <<"GetConfigAttrib">>,
              enumerated |-> configs]

\* ContextDescriptor::attributes: nonzero alpha/depth/stencil sizes of the
\* descriptor's config become flags; the version is copied.
ContextDescriptorAttributes(disp, descriptor) ==
    LET egl_config == egl_config_from_id(disp, descriptor.egl_config_id)
        alpha_size == get_config_attr(disp, egl_config, "ALPHA_SIZE")
        depth_size == get_config_attr(disp, egl_config, "DEPTH_SIZE")
        stencil_size == get_config_attr(disp, egl_config, "STENCIL_SIZE")
    IN  [flags |-> (IF alpha_size # 0 THEN {"ALPHA"} ELSE {})
                   \cup (IF depth_size # 0 THEN {"DEPTH"} ELSE {})
                   \cup (IF stencil_size # 0 THEN {"STENCIL"} ELSE {}),
         version |-> descriptor.gl_version]

---------------------------------------------------------------------------
\* The thread's current binding and eglMakeCurrent.

NO_DISPLAY == "NO_DISPLAY"
NO_CONTEXT == <<"context", 0>>
NO_SURFACE == <<"surface", 0>>
EGLDisplays == {"display"}
EGLContexts == { <<"context", i>> : i \in 1..NumContexts }
EGLSurfaces == { <<"surface", i>> : i \in 1..NumSurfaces }

\* Nothing is current: eglGetCurrentDisplay gives NO_DISPLAY,
\* eglGetCurrentContext NO_CONTEXT, eglGetCurrentSurface NO_SURFACE.
Unbound ==
    [display |-> NO_DISPLAY, context |-> NO_CONTEXT,
     read |-> NO_SURFACE, draw |-> NO_SURFACE]

\* eglMakeCurrent cannot succeed on NO_DISPLAY, nor with surfaces but no context.
MakeCurrentMaySucceed(dpy, draw, read, ctx) ==
    /\ dpy # NO_DISPLAY
    /\ ctx = NO_CONTEXT => (draw = NO_SURFACE /\ read = NO_SURFACE)

\* eglMakeCurrent: on success the binding is the one given (releasing the
\* context leaves no current display); on failure the binding is untouched.
MakeCurrent(cur, dpy, draw, read, ctx, ok) ==
    IF ~ok THEN cur
    ELSE IF ctx = NO_CONTEXT THEN Unbound
    ELSE [display |-> dpy, context |-> ctx, read |-> read, draw |-> draw]

\* eglQueryContext(CONFIG_ID) and the GL version of a native context.
ContextConfigId(ctx) == 20 + ctx[2]
ContextGLVersion(ctx) == [major |-> 1 + ctx[2], minor |-> 0]

\* NativeContext::current(): the (context, read surface, draw surface) triple.
NativeContextCurrent(cur) ==
    [egl_context |-> cur.context,
     egl_read_surface |-> cur.read,
     egl_draw_surface |-> cur.draw]

\* CurrentContextGuard::new.
CurrentContextGuardNew(cur) ==
    [egl_display |-> cur.display,
     old_egl_draw_surface |-> cur.draw,
     old_egl_read_surface |-> cur.read,
     old_egl_context |-> cur.context]

NoGuard ==
    [egl_display |-> "none", old_egl_draw_surface |-> NO_SURFACE,
     old_egl_read_surface |-> NO_SURFACE, old_egl_context |-> NO_CONTEXT]

\* Does dropping the guard call eglMakeCurrent at all?
GuardRestores(g) == g.egl_display # NO_DISPLAY

\* Drop for CurrentContextGuard; the result of eglMakeCurrent is discarded.
CurrentContextGuardDrop(cur, g, ok) ==
    IF GuardRestores(g)
    THEN MakeCurrent(cur, g.egl_display, g.old_egl_draw_surface,
                     g.old_egl_read_surface, g.old_egl_context, ok)
    ELSE cur

NoReturn == Err("none")
Success == [ok |-> TRUE, err |-> "Success"]
Failure(code) == [ok |-> FALSE, err |-> code]

\* make_no_context_current: the new binding and the returned Result.
make_no_context_current_IgnoresFailure(cur, egl_display, nat) ==
    [current |-> MakeCurrent(cur, egl_display, NO_SURFACE, NO_SURFACE,
                             NO_CONTEXT, nat.ok),
     ret |-> Ok(NoDescriptor)]
make_no_context_current(cur, egl_display, nat) ==
    [current |-> MakeCurrent(cur, egl_display, NO_SURFACE, NO_SURFACE,
                             NO_CONTEXT, nat.ok),
     ret |-> IF ~nat.ok THEN ErrCode("MakeCurrentFailed", nat.err)
             ELSE Ok(NoDescriptor)]

\* ContextDescriptor::from_egl_context: the binding it leaves and the
\* descriptor it returns.  query_ok is the outcome of eglQueryContext, whose
\* failure trips the assertion of get_context_attr before anything is bound;
\* bind_ok and restore_ok are the outcomes of the two eglMakeCurrent calls;
\* stray_version is what GLVersion::current reads when no context is current.
from_egl_context(cur, egl_display, egl_context, query_ok, bind_ok, restore_ok, stray_version) ==
    LET egl_config_id == ContextConfigId(egl_context)
        _guard == CurrentContextGuardNew(cur)
        bound == MakeCurrent(cur, egl_display, NO_SURFACE, NO_SURFACE,
                             egl_context, bind_ok)
        gl_version == IF bound.context = NO_CONTEXT THEN stray_version
                      ELSE ContextGLVersion(bound.context)
    IN  IF ~query_ok
        THEN [current |-> cur, ret |-> Err("panic")]
        ELSE [current |-> CurrentContextGuardDrop(bound, _guard, restore_ok),
              ret |-> Ok([egl_config_id |-> egl_config_id,
                          gl_version |-> gl_version])]

---------------------------------------------------------------------------
\* Initial states.

NoOutcome ==
    [result |-> NoReturn, calls |-> <<>>, enumerated |-> <<>>,
     native |-> [count_ok |-> TRUE, enumerate_ok |-> TRUE, err |-> "Success"]]
NoAttributes == [flags |-> {}, version |-> [major |-> 0, minor |-> 0]]

\* A fresh thread has nothing bound and holds no guard.
BindingIdle ==
    /\ current = Unbound
    /\ guard = NoGuard
    /\ acquired = Unbound
    /\ phase = "idle"
    /\ native = Success
    /\ op = "none"
    /\ pre = Unbound
    /\ ret = NoReturn

ResolveIdle ==
    /\ display = <<>>
    /\ request = [attributes |-> NoAttributes, extra |-> <<>>]
    /\ pc = "off"
    /\ first = NoOutcome
    /\ decoded = NoAttributes
    /\ redo = NoOutcome

\* The inputs of a negotiation: a display, the caller's attributes, the extras.
InitResolve ==
    /\ display \in Displays
    /\ request \in [attributes : [flags : SUBSET ContextAttributeFlags,
                                   version : GLVersions],
                     extra : ExtraConfigAttributes]
    /\ pc = "start"
    /\ first = NoOutcome
    /\ decoded = NoAttributes
    /\ redo = NoOutcome
    /\ BindingIdle

InitBinding == BindingIdle /\ ResolveIdle

---------------------------------------------------------------------------
\* Negotiation: resolve, decode the attributes, resolve again.

\* What a call of ContextDescriptor::new did, with what the native side did.
Outcome(out, nat) ==
    [result |-> out.result, calls |-> out.calls, enumerated |-> out.enumerated,
     native |-> nat]

Resolve ==
    /\ pc = "start"
    /\ \E nat \in NativeOutcomes :
          first' = Outcome(ContextDescriptorNew(display, request.attributes,
                                                request.extra, nat), nat)
    /\ pc' = "resolved"
    /\ UNCHANGED <<display, request, decoded, redo, bindingVars>>

Decode ==
    /\ pc = "resolved"
    /\ first.result.tag = "Ok"
    /\ decoded' = ContextDescriptorAttributes(display, first.result.descriptor)
    /\ pc' = "decoded"
    /\ UNCHANGED <<display, request, first, redo, bindingVars>>

ReResolve ==
    /\ pc = "decoded"
    /\ \E nat \in NativeOutcomes :
          redo' = Outcome(ContextDescriptorNew(display, decoded, request.extra, nat),
                          nat)
    /\ pc' = "reresolved"
    /\ UNCHANGED <<display, request, first, decoded, bindingVars>>

NextResolve == Resolve \/ Decode \/ ReResolve

SpecResolve == InitResolve /\ [][NextResolve]_vars

---------------------------------------------------------------------------
\* The application rebinding the thread by calling eglMakeCurrent.
Rebind ==
    /\ \E dpy \in EGLDisplays, ctx \in EGLContexts \cup {NO_CONTEXT},
          draw \in EGLSurfaces \cup {NO_SURFACE},
          read \in EGLSurfaces \cup {NO_SURFACE}, ok \in BOOLEAN :
          /\ ok => MakeCurrentMaySucceed(dpy, draw, read, ctx)
          /\ current' = MakeCurrent(current, dpy, draw, read, ctx, ok)
          /\ native' = [native EXCEPT !.ok = IF phase = "held" THEN @ /\ ok ELSE ok]
          /\ pre' = current'
    /\ phase' = IF phase = "released" THEN "idle" ELSE phase
    /\ op' = "MakeCurrent"
    /\ ret' = NoReturn
    /\ UNCHANGED <<guard, acquired, resolveVars>>

\* let guard = CurrentContextGuard::new();
AcquireGuard ==
    /\ phase # "held"
    /\ guard' = CurrentContextGuardNew(current)
    /\ acquired' = current
    /\ phase' = "held"
    /\ native' = Success
    /\ op' = "CurrentContextGuard::new"
    /\ pre' = current
    /\ ret' = NoReturn
    /\ UNCHANGED <<current, resolveVars>>

\* The guard goes out of scope.
ReleaseGuard ==
    /\ phase = "held"
    /\ \E ok \in BOOLEAN :
          /\ IF GuardRestores(guard)
             THEN ok => MakeCurrentMaySucceed(guard.egl_display,
                            guard.old_egl_draw_surface, guard.old_egl_read_surface,
                            guard.old_egl_context)
             ELSE ok
          /\ current' = CurrentContextGuardDrop(current, guard, ok)
          /\ native' = [native EXCEPT !.ok = @ /\ ok]
    /\ guard' = NoGuard
    /\ phase' = "released"
    /\ op' = "CurrentContextGuard::drop"
    /\ pre' = current'
    /\ ret' = NoReturn
    /\ UNCHANGED <<acquired, resolveVars>>

NextGuard == Rebind \/ AcquireGuard \/ ReleaseGuard

SpecGuard == InitBinding /\ [][NextGuard]_vars

---------------------------------------------------------------------------
\* The operations on the binding that are called without a guard of the caller.

FromEglContext ==
    /\ phase = "idle"
    /\ \E dpy \in EGLDisplays, ctx \in EGLContexts,
          query_ok \in BOOLEAN, bind_ok \in BOOLEAN, restore_ok \in BOOLEAN,
          stray \in { ContextGLVersion(c) : c \in EGLContexts } :
          LET g == CurrentContextGuardNew(current)
              out == from_egl_context(current, dpy, ctx, query_ok, bind_ok,
                                      restore_ok, stray)
          IN  /\ ~query_ok => (bind_ok /\ restore_ok)
              /\ IF GuardRestores(g)
                 THEN restore_ok => MakeCurrentMaySucceed(g.egl_display,
                                        g.old_egl_draw_surface, g.old_egl_read_surface,
                                        g.old_egl_context)
                 ELSE restore_ok
              /\ (~query_ok \/ bind_ok \/ current.context # NO_CONTEXT)
                     => stray = ContextGLVersion(ctx)
              /\ current' = out.current
              /\ ret' = out.ret
              /\ native' = [ok |-> bind_ok /\ restore_ok, err |-> "Success"]
    /\ op' = "from_egl_context"
    /\ pre' = current
    /\ UNCHANGED <<guard, acquired, phase, resolveVars>>

MakeNoContextCurrent ==
    /\ phase = "idle"
    /\ \E dpy \in EGLDisplays \cup {NO_DISPLAY},
          nat \in {Success} \cup { Failure(e) : e \in WindowingApiErrors } :
          LET out == make_no_context_current(current, dpy, nat)
          IN  /\ nat.ok => MakeCurrentMaySucceed(dpy, NO_SURFACE, NO_SURFACE, NO_CONTEXT)
              /\ current' = out.current
              /\ ret' = out.ret
              /\ native' = nat
    /\ op' = "make_no_context_current"
    /\ pre' = current
    /\ UNCHANGED <<guard, acquired, phase, resolveVars>>

NextBinding == Rebind \/ FromEglContext \/ MakeNoContextCurrent

SpecBinding == InitBinding /\ [][NextBinding]_vars

---------------------------------------------------------------------------
\* Vocabulary of the properties, stated on the display's configs directly.

Flags == request.attributes.flags
Version == request.attributes.version
Resolved == pc \in {"resolved", "decoded", "reresolved"}
NativeSucceeded(outcome) == outcome.native.count_ok /\ outcome.native.enumerate_ok

IsRGB8(c) == c.red = 8 /\ c.green = 8 /\ c.blue = 8
IsRGBOnly(c) == IsRGB8(c) /\ c.alpha = 0
IsRGBADepthStencil(c) == IsRGB8(c) /\ c.alpha = 8 /\ c.depth = 24 /\ c.stencil = 8

\* The configs of the display that carry a given CONFIG_ID.
Named(id) == { display[h] : h \in { k \in 1..Len(display) : display[k].id = id } }

\* Is the config at position h the first of the display that satisfies P?
IsFirstWith(h, P(_)) ==
    /\ h \in 1..Len(display)
    /\ P(display[h])
    /\ \A k \in 1..(h - 1) : ~P(display[k])

\* The preconditions under which a request reaches the selection and the
\* native side answers: no policy rejection, no extra constraint, no failure.
PlainRequest ==
    /\ "COMPATIBILITY_PROFILE" \notin Flags
    /\ ~(Version.major > 3 \/ (Version.major = 3 /\ Version.minor > 0))
    /\ request.extra = <<>>
    /\ NativeSucceeded(first)

AdvertisesBoth ==
    /\ \E h \in 1..Len(display) : IsRGBADepthStencil(display[h])
    /\ \E h \in 1..Len(display) : IsRGBOnly(display[h])

---------------------------------------------------------------------------
\* C1 (guard law).  Once a guard has been acquired, the thread rebound and
\* the guard released, the thread's (context, read surface, draw surface)
\* triple is the one captured at acquisition, and if nothing was bound at
\* acquisition nothing is bound after the release.  Stated for the runs in
\* which no native MakeCurrent reported a failure.
GuardLaw ==
    (phase = "released" /\ native.ok) =>
        /\ NativeContextCurrent(current) = NativeContextCurrent(acquired)
        /\ acquired = Unbound => current = Unbound

\* C2.  from_egl_context leaves the thread's binding exactly as it found it,
\* whatever was bound before (nothing included).  Stated for the runs in
\* which no native MakeCurrent reported a failure.
FromEglContextKeepsBinding ==
    (op = "from_egl_context" /\ native.ok) => current = pre

\* C3.  A request carrying COMPATIBILITY_PROFILE fails with
\* UnsupportedGLProfile, and no native call is issued for it.
CompatibilityRejectedUnqueried ==
    (Resolved /\ "COMPATIBILITY_PROFILE" \in Flags) =>
        /\ first.result = Err("UnsupportedGLProfile")
        /\ first.calls = <<>>

CompatibilityRejectedWitness ==
    /\ pc = "resolved"
    /\ {"COMPATIBILITY_PROFILE", "ALPHA"} \subseteq Flags
    /\ Version.major = 2
    /\ request.extra # <<>>
    /\ Len(display) > 0
    /\ first.result.tag = "UnsupportedGLProfile"

\* C4 as stated.  Every request with major > 3, or major = 3 and minor > 0,
\* fails with UnsupportedGLVersion.
VersionRejectedAlways ==
    (Resolved /\ (Version.major > 3 \/ (Version.major = 3 /\ Version.minor > 0)))
        => first.result.tag = "UnsupportedGLVersion"

\* C4 amended.  Every request with major > 3, or major = 3 and minor > 0,
\* that does not carry COMPATIBILITY_PROFILE fails with UnsupportedGLVersion
\* (with the flag, the profile check comes first and the failure is
\* UnsupportedGLProfile).
VersionRejectedUnlessCompatibility ==
    (Resolved /\ (Version.major > 3 \/ (Version.major = 3 /\ Version.minor > 0))) =>
        first.result = IF "COMPATIBILITY_PROFILE" \in Flags
                       THEN Err("UnsupportedGLProfile")
                       ELSE Err("UnsupportedGLVersion")

VersionRejectedWitness ==
    /\ pc = "resolved"
    /\ Version.major = 3 /\ Version.minor = 1
    /\ "COMPATIBILITY_PROFILE" \notin Flags
    /\ first.result.tag = "UnsupportedGLVersion"

\* C5 (sanitization).  Whenever ContextDescriptor::new returns Ok, the
\* display has a config of the returned identifier, and that config reports
\* red, green and blue sizes of exactly 8.
ResolvedConfigIsRGB8 ==
    \A outcome \in {first, redo} :
        outcome.result.tag = "Ok" =>
            /\ Named(outcome.result.descriptor.egl_config_id) # {}
            /\ \A c \in Named(outcome.result.descriptor.egl_config_id) : IsRGB8(c)

\* The native selection returned a deeper format ahead of the config chosen.
ResolvedConfigWitness ==
    /\ pc = "resolved"
    /\ first.result.tag = "Ok"
    /\ Len(first.enumerated) > 1
    /\ display[first.enumerated[1]].red = 10
    /\ \E c \in Named(first.result.descriptor.egl_config_id) : IsRGB8(c)

\* C6 (round trip).  Re-resolving the attributes decoded from a resolved
\* descriptor, on the same display with the same extras, succeeds with the
\* same config identifier.  Stated for the runs in which the native
\* selection reports no failure.
RoundTripSameConfig ==
    (pc = "reresolved" /\ NativeSucceeded(redo)) =>
        /\ redo.result.tag = "Ok"
        /\ redo.result.descriptor.egl_config_id
              = first.result.descriptor.egl_config_id

\* C7 as stated.  On a display with an 8/8/8/8 depth-24 stencil-8 config
\* and an 8/8/8/0 config, empty flags select an RGB-only config and
\* ALPHA|DEPTH|STENCIL selects an RGBA/depth/stencil config.  Stated for
\* requests within the version ceiling, without extras, in the runs in
\* which the native selection reports no failure.
SelectsByFlagsAlone ==
    (Resolved /\ PlainRequest /\ AdvertisesBoth) =>
        /\ Flags = {} =>
              /\ first.result.tag = "Ok"
              /\ \A c \in Named(first.result.descriptor.egl_config_id) : IsRGBOnly(c)
        /\ Flags = {"ALPHA", "DEPTH", "STENCIL"} =>
              /\ first.result.tag = "Ok"
              /\ \A c \in Named(first.result.descriptor.egl_config_id) :
                     IsRGBADepthStencil(c)

\* C7 amended.  On such a display, for a version within the ceiling, no
\* extras and no native failure: empty flags select the first 8/8/8 config
\* of the display's enumeration order (RGB-only or not), and
\* ALPHA|DEPTH|STENCIL selects the first 8/8/8 config of that order with
\* alpha >= 8, depth >= 24 and stencil >= 8.
SelectsFirstInEnumerationOrder ==
    (Resolved /\ PlainRequest /\ AdvertisesBoth) =>
        /\ Flags = {} =>
              /\ first.result.tag = "Ok"
              /\ \E h \in 1..Len(display) :
                     /\ IsFirstWith(h, IsRGB8)
                     /\ first.result.descriptor.egl_config_id = display[h].id
        /\ Flags = {"ALPHA", "DEPTH", "STENCIL"} =>
              /\ first.result.tag = "Ok"
              /\ \E h \in 1..Len(display) :
                     /\ IsFirstWith(h, LAMBDA c : IsRGB8(c) /\ c.alpha >= 8
                                                  /\ c.depth >= 24 /\ c.stencil >= 8)
                     /\ first.result.descriptor.egl_config_id = display[h].id

\* Empty flags, the RGBA config enumerated ahead of the RGB-only one: the
\* RGBA config is selected.
SelectsFirstWitness ==
    /\ pc = "resolved" /\ PlainRequest /\ AdvertisesBoth
    /\ Flags = {}
    /\ first.result.tag = "Ok"
    /\ \E c \in Named(first.result.descriptor.egl_config_id) : IsRGBADepthStencil(c)

\* C8 as stated.  On a display without any 8/8/8 config every request fails
\* with NoPixelFormatFound.  Stated for the runs in which the native
\* selection reports no failure.
NoRGB8AlwaysNoPixelFormat ==
    (Resolved /\ NativeSucceeded(first)
       /\ (\A h \in 1..Len(display) : ~IsRGB8(display[h])))
        => first.result.tag = "NoPixelFormatFound"

\* C8 amended.  On a display without any 8/8/8 config, every request that
\* passes the policy checks (no COMPATIBILITY_PROFILE, version at most 3.0)
\* fails with NoPixelFormatFound, unless the native selection itself reports
\* a failure, which is returned as PixelFormatSelectionFailed.
NoRGB8NoPixelFormatAfterPolicy ==
    (Resolved /\ (\A h \in 1..Len(display) : ~IsRGB8(display[h]))
       /\ "COMPATIBILITY_PROFILE" \notin Flags
       /\ ~(Version.major > 3 \/ (Version.major = 3 /\ Version.minor > 0))) =>
        /\ first.result.tag \in {"NoPixelFormatFound", "PixelFormatSelectionFailed"}
        /\ NativeSucceeded(first) => first.result = Err("NoPixelFormatFound")
        /\ first.result.tag = "PixelFormatSelectionFailed" => ~NativeSucceeded(first)

\* The native selection returned configs, all of them deeper than 8/8/8.
NoRGB8Witness ==
    /\ pc = "resolved"
    /\ Len(display) > 0
    /\ \A h \in 1..Len(display) : ~IsRGB8(display[h])
    /\ Len(first.enumerated) > 0
    /\ first.result.tag = "NoPixelFormatFound"

\* C9.  After make_no_context_current returns Ok nothing is bound on the
\* thread, whatever was bound before; when the native MakeCurrent reports a
\* failure the call returns MakeCurrentFailed with the reported code.
MakeNoContextCurrentClears ==
    op = "make_no_context_current" =>
        /\ ret.tag = "Ok" =>
              /\ current.context = NO_CONTEXT
              /\ current.read = NO_SURFACE
              /\ current.draw = NO_SURFACE
        /\ ~native.ok => ret = ErrCode("MakeCurrentFailed", native.err)
        /\ native.ok => ret.tag = "Ok"

MakeNoContextCurrentWitness ==
    /\ op = "make_no_context_current"
    /\ ret.tag = "Ok"
    /\ pre.context # NO_CONTEXT /\ pre.read # NO_SURFACE /\ pre.draw # NO_SURFACE
    /\ current.context = NO_CONTEXT

\* C10.  The identifier returned by ContextDescriptor::new is that of the
\* first config, in the order the native enumeration returned the matches,
\* that reports 8/8/8; no config returned before it reports 8/8/8, and the
\* alpha, depth and stencil sizes it reports do not matter.
FirstSanitizedIsChosen ==
    \A outcome \in {first, redo} :
        outcome.result.tag = "Ok" =>
            \E i \in 1..Len(outcome.enumerated) :
                /\ display[outcome.enumerated[i]].id
                      = outcome.result.descriptor.egl_config_id
                /\ IsRGB8(display[outcome.enumerated[i]])
                /\ \A j \in 1..(i - 1) : ~IsRGB8(display[outcome.enumerated[j]])

\* Empty flags: a deeper format was returned first and skipped, the config
\* chosen has alpha, depth and stencil the request did not ask for, and an
\* exact 8/8/8/0 match was returned after it.
FirstSanitizedWitness ==
    /\ pc = "resolved"
    /\ Flags = {}
    /\ first.result.tag = "Ok"
    /\ Len(first.enumerated) = 3
    /\ ~IsRGB8(display[first.enumerated[1]])
    /\ IsRGBADepthStencil(display[first.enumerated[2]])
    /\ display[first.enumerated[2]].id = first.result.descriptor.egl_config_id
    /\ IsRGBOnly(display[first.enumerated[3]])

=============================================================================
